---- MODULE Spec2Model ----
(***************************************************************************)
(* RandomDreidel: the 32-bit LFSR engine (src/src/lfsr.py) and the Dreidel *)
(* spinner built on it (src/src/dreidel.py).                               *)
(*                                                                         *)
(* Python integers are unbounded, and the values of interest (0xFFFFFFFF,  *)
(* seeds wider than 32 bits) do not fit a TLC integer.  A Python int v is  *)
(* therefore the pair <<hi, lo>> with v = hi * 2^16 + lo, 0 <= lo < 2^16   *)
(* and hi any integer (negative for a negative v, as in two's complement). *)
(* Every arithmetic and bitwise operator of the source is computed on that *)
(* representation.                                                         *)
(***************************************************************************)
EXTENDS Integers, Sequences, FiniteSets, TLC

Base == 2^16
Half == 2^15

(***************************************************************************)
(* Python int arithmetic on pairs.                                         *)
(***************************************************************************)
PyInt(h, l) == <<h + (l \div Base), l % Base>>

Zero == <<0, 0>>
One == <<0, 1>>

IntEq(a, b) == a[1] = b[1] /\ a[2] = b[2]
IntLt(a, b) == a[1] < b[1] \/ (a[1] = b[1] /\ a[2] < b[2])
IntLe(a, b) == IntLt(a, b) \/ IntEq(a, b)
IntAdd(a, b) == PyInt(a[1] + b[1], a[2] + b[2])
IntSub(a, b) == PyInt(a[1] - b[1], a[2] - b[2])

\* a >> 1
Shr1(a) == <<a[1] \div 2, (a[1] % 2) * Half + (a[2] \div 2)>>

\* a >> k and a << k, limb by limb
IntShr(a, k) ==
    IF k < 16
    THEN <<a[1] \div 2^k, (a[1] % 2^k) * 2^(16 - k) + (a[2] \div 2^k)>>
    ELSE PyInt(0, a[1] \div 2^(k - 16))

IntShl(a, k) ==
    IF k < 16
    THEN PyInt(a[1] * 2^k + (a[2] * 2^k) \div Base, (a[2] * 2^k) % Base)
    ELSE PyInt((a[1] * Base + a[2]) * 2^(k - 16), 0)

\* Bitwise operators on one limb; y is non-negative, x may be negative (the
\* infinite two's complement of Python: x % 2 is the low bit, x \div 2 floors).
RECURSIVE AndLimb(_, _)
AndLimb(x, y) ==
    IF y = 0 THEN 0 ELSE ((x % 2) * (y % 2)) + 2 * AndLimb(x \div 2, y \div 2)

RECURSIVE OrLimb(_, _)
OrLimb(x, y) ==
    IF y = 0 THEN x
    ELSE (IF (x % 2) + (y % 2) > 0 THEN 1 ELSE 0) + 2 * OrLimb(x \div 2, y \div 2)

RECURSIVE XorLimb(_, _)
XorLimb(x, y) ==
    IF y = 0 THEN x
    ELSE (((x % 2) + (y % 2)) % 2) + 2 * XorLimb(x \div 2, y \div 2)

\* a & b, a | b, a ^ b for b >= 0
IntAnd(a, b) == <<AndLimb(a[1], b[1]), AndLimb(a[2], b[2])>>
IntOr(a, b) == <<OrLimb(a[1], b[1]), OrLimb(a[2], b[2])>>
IntXor(a, b) == <<XorLimb(a[1], b[1]), XorLimb(a[2], b[2])>>

\* v % r as Python computes it, for r > 0.  A divisor of one limb is reduced
\* limb by limb (v = hi * 2^8 * 2^8 + lo); a wider divisor by binary long
\* division, v = 2 * (v >> 1) + (v & 1), for v >= 0.
ModStep(m, bit, r) ==
    LET t == PyInt(2 * m[1], 2 * m[2] + bit)
    IN  IF IntLe(r, t) THEN IntSub(t, r) ELSE t

RECURSIVE ModWide(_, _)
ModWide(v, r) ==
    IF IntLt(v, r) THEN v ELSE ModStep(ModWide(Shr1(v), r), v[2] % 2, r)

IntMod(v, r) ==
    IF r[1] = 0
    THEN <<0, ((((v[1] % r[2]) * 256) % r[2]) * 256 + v[2]) % r[2]>>
    ELSE ModWide(v, r)

\* 0xFFFFFFFF, the mask of __init__ and the default max_val of random_int
MASK32 == <<Base - 1, Base - 1>>

(***************************************************************************)
(* class LFSR32                                                            *)
(***************************************************************************)
NoEngine == [live |-> FALSE, _state |-> Zero]

\* __init__ with the mask applied before the zero test
LFSR32_MaskFirst(seed) ==
    IF IntEq(IntAnd(seed, MASK32), Zero)
    THEN [exc |-> "ValueError", obj |-> NoEngine]
    ELSE [exc |-> "", obj |-> [live |-> TRUE, _state |-> IntAnd(seed, MASK32)]]

\* LFSR32.__init__: the zero test is made on the seed as given, the mask is
\* applied afterwards.
LFSR32(seed) ==
    IF IntEq(seed, Zero)
    THEN [exc |-> "ValueError", obj |-> NoEngine]
    ELSE [exc |-> "", obj |-> [live |-> TRUE, _state |-> IntAnd(seed, MASK32)]]

\* _lfsr32 with the tap at bit 2 instead of bit 1
_lfsr32_WrongTap(state) ==
    LET bit31 == IntAnd(IntShr(state, 31), One)
        bit21 == IntAnd(IntShr(state, 21), One)
        bit1 == IntAnd(IntShr(state, 2), One)
        bit0 == IntAnd(state, One)
        feedback == IntXor(IntXor(IntXor(bit31, bit21), bit1), bit0)
    IN  IntOr(IntShr(state, 1), IntShl(feedback, 31))

\* _lfsr32 with bit 0 left out of the feedback
_lfsr32_NoBit0(state) ==
    LET bit31 == IntAnd(IntShr(state, 31), One)
        bit21 == IntAnd(IntShr(state, 21), One)
        bit1 == IntAnd(IntShr(state, 1), One)
        feedback == IntXor(IntXor(bit31, bit21), bit1)
    IN  IntOr(IntShr(state, 1), IntShl(feedback, 31))

\* LFSR32._lfsr32
_lfsr32(state) ==
    LET bit31 == IntAnd(IntShr(state, 31), One)
        bit21 == IntAnd(IntShr(state, 21), One)
        bit1 == IntAnd(IntShr(state, 1), One)
        bit0 == IntAnd(state, One)
        feedback == IntXor(IntXor(IntXor(bit31, bit21), bit1), bit0)
    IN  IntOr(IntShr(state, 1), IntShl(feedback, 31))

\* LFSR32._next: the engine after the step, and the value returned
_next(self) ==
    LET new == _lfsr32(self._state)
    IN  [obj |-> [self EXCEPT !._state = new], ret |-> new]

\* random_int that advances before it validates the range
random_int_AdvanceFirst(self, min_val, max_val) ==
    LET nx == _next(self)
        value == nx.ret
        range_size == IntAdd(IntSub(max_val, min_val), One)
    IN  IF IntLt(max_val, min_val)
        THEN [exc |-> "ValueError", obj |-> nx.obj, ret |-> Zero]
        ELSE IF IntEq(min_val, Zero) /\ IntEq(max_val, MASK32)
             THEN [exc |-> "", obj |-> nx.obj, ret |-> value]
             ELSE [exc |-> "", obj |-> nx.obj,
                   ret |-> IntAdd(min_val, IntMod(value, range_size))]

\* random_int with range_size one too large
random_int_OffByOne(self, min_val, max_val) ==
    IF IntLt(max_val, min_val)
    THEN [exc |-> "ValueError", obj |-> self, ret |-> Zero]
    ELSE LET nx == _next(self)
             value == nx.ret
             range_size == IntAdd(IntSub(max_val, min_val), <<0, 2>>)
         IN  IF IntEq(min_val, Zero) /\ IntEq(max_val, MASK32)
             THEN [exc |-> "", obj |-> nx.obj, ret |-> value]
             ELSE [exc |-> "", obj |-> nx.obj,
                   ret |-> IntAdd(min_val, IntMod(value, range_size))]

\* random_int that answers a one-value range without advancing
random_int_SkipSingle(self, min_val, max_val) ==
    IF IntLt(max_val, min_val)
    THEN [exc |-> "ValueError", obj |-> self, ret |-> Zero]
    ELSE IF IntEq(min_val, max_val)
         THEN [exc |-> "", obj |-> self, ret |-> min_val]
         ELSE LET nx == _next(self)
                  value == nx.ret
                  range_size == IntAdd(IntSub(max_val, min_val), One)
              IN  IF IntEq(min_val, Zero) /\ IntEq(max_val, MASK32)
                  THEN [exc |-> "", obj |-> nx.obj, ret |-> value]
                  ELSE [exc |-> "", obj |-> nx.obj,
                        ret |-> IntAdd(min_val, IntMod(value, range_size))]

\* LFSR32.random_int
random_int(self, min_val, max_val) ==
    IF IntLt(max_val, min_val)
    THEN [exc |-> "ValueError", obj |-> self, ret |-> Zero]
    ELSE LET nx == _next(self)
             value == nx.ret
             range_size == IntAdd(IntSub(max_val, min_val), One)
         IN  IF IntEq(min_val, Zero) /\ IntEq(max_val, MASK32)
             THEN [exc |-> "", obj |-> nx.obj, ret |-> value]
             ELSE [exc |-> "", obj |-> nx.obj,
                   ret |-> IntAdd(min_val, IntMod(value, range_size))]

(***************************************************************************)
(* class Dreidel                                                           *)
(***************************************************************************)
FACES == <<"Nun", "Gimel", "Hey", "Shin">>

NoDreidel == [live |-> FALSE, _lfsr |-> NoEngine]

\* Dreidel.__init__: owns one LFSR32; its ValueError propagates
Dreidel(seed) ==
    LET r == LFSR32(seed)
    IN  IF r.exc # ""
        THEN [exc |-> r.exc, obj |-> NoDreidel]
        ELSE [exc |-> "", obj |-> [live |-> TRUE, _lfsr |-> r.obj]]

\* FACES[index]: a Python tuple accepts -len .. len-1 and raises IndexError
\* outside of it
TupleIndex(t, index) ==
    IF index[1] = 0 /\ index[2] < Len(t)
    THEN [exc |-> "", ret |-> t[index[2] + 1]]
    ELSE IF index[1] = -1 /\ index[2] >= Base - Len(t)
         THEN [exc |-> "", ret |-> t[Len(t) - (Base - index[2]) + 1]]
         ELSE [exc |-> "IndexError", ret |-> ""]

\* spin that samples random_int(0, 4)
spin_FiveFaces(self) ==
    LET r == random_int(self._lfsr, Zero, <<0, 4>>)
        index == r.ret
        f == TupleIndex(FACES, index)
        after == [self EXCEPT !._lfsr = r.obj]
    IN  IF r.exc # ""
        THEN [exc |-> r.exc, obj |-> after, index |-> Zero, ret |-> ""]
        ELSE [exc |-> f.exc, obj |-> after, index |-> index, ret |-> f.ret]

\* Dreidel.spin
spin(self) ==
    LET r == random_int(self._lfsr, Zero, <<0, 3>>)
        index == r.ret
        f == TupleIndex(FACES, index)
        after == [self EXCEPT !._lfsr = r.obj]
    IN  IF r.exc # ""
        THEN [exc |-> r.exc, obj |-> after, index |-> Zero, ret |-> ""]
        ELSE [exc |-> f.exc, obj |-> after, index |-> index, ret |-> f.ret]

(***************************************************************************)
(* Bounds and inputs                                                       *)
(***************************************************************************)
MaxCalls == 3
MaxSpins == 2
MaxIter == 8
MaxScript == 2

EngineIds == {1, 2}
DreidelIds == {1, 2}

\* 0x2E5CB972, 0x80000000, 0xFFFFFFFF, 2^32, 2^32 + 1, -1 and 3 * 2^32 + 42
\* are among the seeds
Seeds ==
    { Zero, One, <<0, 3>>, <<0, 42>>, <<0, 12345>>, <<11868, 47474>>,
      <<Half, 0>>, MASK32, <<Base, 0>>, <<Base, 1>>, <<-1, Base - 1>>,
      <<3 * Base, 42>>, <<57005, 48879>> }

\* (min_val, max_val) pairs: the default range, the ranges of the tests,
\* inverted ranges, and ranges as wide as or wider than 32 bits
Ranges ==
    { <<Zero, MASK32>>, <<Zero, <<0, 3>>>>, <<One, <<0, 100>>>>,
      <<<<0, 50>>, <<0, 50>>>>, <<<<-1, Base - 10>>, <<0, 10>>>>,
      <<<<0, 10>>, <<0, 5>>>>, <<One, Zero>>, <<<<0, 5>>, <<-1, Base - 5>>>>,
      <<Zero, <<Base, 0>>>>, <<<<-Half, 0>>, <<Half - 1, Base - 1>>>>,
      <<One, MASK32>>, <<<<-1, Base - 3>>, <<-1, Base - 3>>>> }

\* 16-bit patterns: the tap bits 0 and 1 (low limb), 21 and 31 (bits 5 and 15
\* of the high limb), all ones, and the limbs of 0x2E5CB972
Limbs == { 0, 1, 3, 32, Half, Base - 1, 11868, 47474 }

\* the seeds of the stepping caller: Seeds and every 32-bit value made of
\* two of those patterns
PeriodSeeds == Seeds \cup { <<h, l>> : h \in Limbs, l \in Limbs }

\* the seeds a Dreidel is built from
DreidelSeeds == { Zero, One, <<0, 42>>, <<11868, 47474>>, MASK32, <<Base, 0>> }

PairSeeds == { One, <<0, 42>> }
PairRanges == { <<Zero, MASK32>>, <<Zero, <<0, 3>>>>, <<<<0, 10>>, <<0, 5>>>> }

(***************************************************************************)
(* State                                                                   *)
(***************************************************************************)
VARIABLES
    lfsr,       \* the LFSR32 instances: EngineIds -> [live, _state]
    dreidel,    \* the Dreidel instances: DreidelIds -> [live, _lfsr]
    eseed,      \* the seed each live LFSR32 was constructed with
    dseed,      \* the seed each live Dreidel was constructed with
    ecalls,     \* successful random_int calls made on each LFSR32
    dspins,     \* spin calls made on each Dreidel
    obs,        \* the last call made by the caller and what it gave back
    script,     \* the (min_val, max_val) sequence the paired callers follow
    outs,       \* what each LFSR32 gave back to a caller following script
    faces       \* what each Dreidel gave back, spin by spin

vars == <<lfsr, dreidel, eseed, dseed, ecalls, dspins, obs, script, outs, faces>>
logs == <<script, outs, faces>>

NoObs ==
    [op |-> "none", id |-> 0, a |-> Zero, b |-> Zero, pre |-> Zero,
     exc |-> "", ret |-> Zero, face |-> ""]

Init ==
    /\ lfsr = [e \in EngineIds |-> NoEngine]
    /\ dreidel = [d \in DreidelIds |-> NoDreidel]
    /\ eseed = [e \in EngineIds |-> Zero]
    /\ dseed = [d \in DreidelIds |-> Zero]
    /\ ecalls = [e \in EngineIds |-> 0]
    /\ dspins = [d \in DreidelIds |-> 0]
    /\ obs = NoObs
    /\ script = <<>>
    /\ outs = [e \in EngineIds |-> <<>>]
    /\ faces = [d \in DreidelIds |-> <<>>]

\* _state kept on the class: an assignment reaches every live instance
SetAttrShared(objs, id, o) ==
    [i \in DOMAIN objs |-> IF objs[i].live \/ i = id THEN o ELSE objs[i]]

\* An instance keeps its own attributes: self._state = ... touches no other
SetAttr(objs, id, o) == [objs EXCEPT ![id] = o]

(***************************************************************************)
(* The calls a caller can make, and their effect on the instances          *)
(***************************************************************************)
\* e = LFSR32(seed)
New(e, seed) ==
    LET r == LFSR32(seed)
    IN  /\ ~lfsr[e].live
        /\ IF r.exc = ""
           THEN /\ lfsr' = SetAttr(lfsr, e, r.obj)
                /\ eseed' = [eseed EXCEPT ![e] = seed]
           ELSE UNCHANGED <<lfsr, eseed>>
        /\ UNCHANGED <<dreidel, dseed, ecalls, dspins>>

\* e.random_int(min_val, max_val)
RandomInt(e, min_val, max_val) ==
    LET r == random_int(lfsr[e], min_val, max_val)
    IN  /\ lfsr[e].live
        /\ lfsr' = SetAttr(lfsr, e, r.obj)
        /\ ecalls' = [ecalls EXCEPT ![e] = IF r.exc = "" THEN @ + 1 ELSE @]
        /\ UNCHANGED <<dreidel, eseed, dseed, dspins>>

\* d = Dreidel(seed)
NewDreidel(d, seed) ==
    LET r == Dreidel(seed)
    IN  /\ ~dreidel[d].live
        /\ IF r.exc = ""
           THEN /\ dreidel' = SetAttr(dreidel, d, r.obj)
                /\ dseed' = [dseed EXCEPT ![d] = seed]
           ELSE UNCHANGED <<dreidel, dseed>>
        /\ UNCHANGED <<lfsr, eseed, ecalls, dspins>>

\* d.spin()
Spin(d) ==
    LET r == spin(dreidel[d])
    IN  /\ dreidel[d].live
        /\ dreidel' = SetAttr(dreidel, d, r.obj)
        /\ dspins' = [dspins EXCEPT ![d] = @ + 1]
        /\ UNCHANGED <<lfsr, eseed, dseed, ecalls>>

\* What the caller sees of each call
NewObs(e, seed) ==
    [NoObs EXCEPT !.op = "LFSR32", !.id = e, !.a = seed,
                  !.exc = LFSR32(seed).exc]

RandomIntObs(e, min_val, max_val) ==
    LET r == random_int(lfsr[e], min_val, max_val)
    IN  [NoObs EXCEPT !.op = "random_int", !.id = e, !.a = min_val,
                      !.b = max_val, !.pre = lfsr[e]._state,
                      !.exc = r.exc, !.ret = r.ret]

NewDreidelObs(d, seed) ==
    [NoObs EXCEPT !.op = "Dreidel", !.id = d, !.a = seed,
                  !.exc = Dreidel(seed).exc]

SpinObs(d) ==
    LET r == spin(dreidel[d])
    IN  [NoObs EXCEPT !.op = "spin", !.id = d,
                      !.pre = dreidel[d]._lfsr._state,
                      !.exc = r.exc, !.ret = r.index, !.face = r.ret]

(***************************************************************************)
(* Spec: one caller, one LFSR32 and one Dreidel, every seed and range      *)
(***************************************************************************)
Construct ==
    \E seed \in Seeds :
        /\ New(1, seed)
        /\ obs' = NewObs(1, seed)
        /\ UNCHANGED logs

Sample ==
    \E rg \in Ranges :
        /\ ecalls[1] < MaxCalls
        /\ RandomInt(1, rg[1], rg[2])
        /\ obs' = RandomIntObs(1, rg[1], rg[2])
        /\ UNCHANGED logs

ConstructDreidel ==
    \E seed \in DreidelSeeds :
        /\ NewDreidel(1, seed)
        /\ obs' = NewDreidelObs(1, seed)
        /\ UNCHANGED logs

SpinOnce ==
    /\ dspins[1] < MaxSpins
    /\ Spin(1)
    /\ obs' = SpinObs(1)
    /\ UNCHANGED logs

Next == Construct \/ Sample \/ ConstructDreidel \/ SpinOnce

Spec == Init /\ [][Next]_vars

(***************************************************************************)
(* SpecPeriod: one LFSR32 stepped again and again over the default range   *)
(***************************************************************************)
Seed ==
    \E seed \in PeriodSeeds :
        /\ New(1, seed)
        /\ obs' = NewObs(1, seed)
        /\ UNCHANGED logs

Iterate ==
    /\ ecalls[1] < MaxIter
    /\ RandomInt(1, Zero, MASK32)
    /\ obs' = RandomIntObs(1, Zero, MASK32)
    /\ UNCHANGED logs

NextPeriod == Seed \/ Iterate

SpecPeriod == Init /\ [][NextPeriod]_vars

(***************************************************************************)
(* SpecPair: two LFSR32 and two Dreidel instances; the k-th random_int     *)
(* call on either LFSR32 is made with the k-th range of one script         *)
(***************************************************************************)
PairConstruct ==
    \E e \in EngineIds, seed \in PairSeeds :
        /\ New(e, seed)
        /\ UNCHANGED <<obs, logs>>

PairSample ==
    \E e \in EngineIds :
        LET k == Len(outs[e]) + 1
        IN  /\ k <= MaxScript
            /\ \E rg \in (IF k <= Len(script) THEN {script[k]} ELSE PairRanges) :
                  LET r == random_int(lfsr[e], rg[1], rg[2])
                  IN  /\ RandomInt(e, rg[1], rg[2])
                      /\ script' = IF k <= Len(script) THEN script
                                   ELSE Append(script, rg)
                      /\ outs' = [outs EXCEPT ![e] =
                                    Append(@, [exc |-> r.exc, ret |-> r.ret])]
                      /\ UNCHANGED <<obs, faces>>

PairConstructDreidel ==
    \E d \in DreidelIds, seed \in PairSeeds :
        /\ NewDreidel(d, seed)
        /\ UNCHANGED <<obs, logs>>

PairSpin ==
    \E d \in DreidelIds :
        LET r == spin(dreidel[d])
        IN  /\ dspins[d] < MaxSpins
            /\ Spin(d)
            /\ faces' = [faces EXCEPT ![d] =
                           Append(@, [exc |-> r.exc, ret |-> r.ret])]
            /\ UNCHANGED <<obs, script, outs>>

NextPair == PairConstruct \/ PairSample \/ PairConstructDreidel \/ PairSpin

SpecPair == Init /\ [][NextPair]_vars

(***************************************************************************)
(* Properties                                                              *)
(***************************************************************************)
\* v is a 32-bit unsigned value
Is32(v) == v[1] \in 0..(Base - 1) /\ v[2] \in 0..(Base - 1)

\* bit i of a 32-bit value, by division
Bit(v, i) == IF i < 16 THEN (v[2] \div 2^i) % 2 ELSE (v[1] \div 2^(i - 16)) % 2

\* the documented step on a 32-bit value, by arithmetic: drop bit 0, move
\* every other bit down by one, put the parity of bits 31, 21, 1, 0 at bit 31,
\* keep 32 bits
StepMasked(s) ==
    LET f == (Bit(s, 31) + Bit(s, 21) + Bit(s, 1) + Bit(s, 0)) % 2
    IN  <<((s[1] \div 2) + f * Half) % Base, (s[1] % 2) * Half + (s[2] \div 2)>>

\* a seed in [1, 2^32 - 1]
SeedIn32(seed) == Is32(seed) /\ ~IntEq(seed, Zero)

\* C1: a random_int call with min > max fails and leaves the engine state as
\* it was, and a random_int(0, 0xFFFFFFFF) made right after the failed call
\* returns the step of the state held before the failed call.
C1_InvalidRangeKeepsState ==
    /\ [](obs.op = "random_int" /\ IntLt(obs.b, obs.a)
            => /\ obs.exc = "ValueError"
               /\ lfsr[obs.id]._state = obs.pre)
    /\ [][(/\ obs.op = "random_int"
           /\ obs.exc # ""
           /\ obs'.op = "random_int"
           /\ obs'.id = obs.id
           /\ IntEq(obs'.a, Zero)
           /\ IntEq(obs'.b, MASK32))
            => /\ obs'.exc = ""
               /\ obs'.pre = obs.pre
               /\ obs'.ret = StepMasked(obs.pre)]_vars

\* a failed random_int on an engine that has already advanced
C1_Witness ==
    /\ obs.op = "random_int"
    /\ IntLt(obs.b, obs.a)
    /\ obs.exc = "ValueError"
    /\ ecalls[obs.id] >= 1

\* C2: the state of a constructed engine is never zero, whatever non-zero
\* seed it was constructed with and whatever calls were made.
C2_StateNeverZero ==
    /\ \A e \in EngineIds : lfsr[e].live => ~IntEq(lfsr[e]._state, Zero)
    /\ \A d \in DreidelIds :
          dreidel[d].live => ~IntEq(dreidel[d]._lfsr._state, Zero)

\* C3: a random_int call with min <= max succeeds with min <= value <= max,
\* and with exactly min when min = max.
C3_RangeContainment ==
    obs.op = "random_int" /\ IntLe(obs.a, obs.b)
        => /\ obs.exc = ""
           /\ IntLe(obs.a, obs.ret)
           /\ IntLe(obs.ret, obs.b)
           /\ (IntEq(obs.a, obs.b) => IntEq(obs.ret, obs.a))

\* a negative value returned for a range with a negative lower bound
C3_Witness ==
    /\ obs.op = "random_int"
    /\ obs.exc = ""
    /\ IntLt(obs.a, Zero)
    /\ IntLt(Zero, obs.b)
    /\ IntLt(obs.ret, Zero)

\* C4: two engines built from one seed and given the same calls return the
\* same values call by call and hold the same state after the same number
\* of calls; so do two Dreidels built from one seed, spin by spin.
C4_Determinism ==
    /\ \A e1 \in EngineIds, e2 \in EngineIds :
          lfsr[e1].live /\ lfsr[e2].live /\ IntEq(eseed[e1], eseed[e2])
            => /\ \A i \in 1..Len(outs[e1]) :
                     i <= Len(outs[e2]) => outs[e1][i] = outs[e2][i]
               /\ (Len(outs[e1]) = Len(outs[e2])
                     => lfsr[e1]._state = lfsr[e2]._state)
    /\ \A d1 \in DreidelIds, d2 \in DreidelIds :
          dreidel[d1].live /\ dreidel[d2].live /\ IntEq(dseed[d1], dseed[d2])
            => /\ \A i \in 1..Len(faces[d1]) :
                     i <= Len(faces[d2]) => faces[d1][i] = faces[d2][i]
               /\ (Len(faces[d1]) = Len(faces[d2])
                     => dreidel[d1]._lfsr._state = dreidel[d2]._lfsr._state)

\* both engines and both Dreidels built from one seed, each called twice
C4_Witness ==
    /\ lfsr[1].live /\ lfsr[2].live /\ IntEq(eseed[1], eseed[2])
    /\ Len(outs[1]) >= 2 /\ Len(outs[2]) >= 2
    /\ outs[1][2].exc = ""
    /\ dreidel[1].live /\ dreidel[2].live /\ IntEq(dseed[1], dseed[2])
    /\ Len(faces[1]) >= 2 /\ Len(faces[2]) >= 2

\* C5: LFSR32(0) and Dreidel(0) fail and yield no instance; with any other
\* seed the construction succeeds.
C5_ZeroSeedRejected ==
    /\ obs.op = "LFSR32"
         => IF IntEq(obs.a, Zero)
            THEN obs.exc = "ValueError" /\ ~lfsr[obs.id].live
            ELSE obs.exc = "" /\ lfsr[obs.id].live
    /\ obs.op = "Dreidel"
         => IF IntEq(obs.a, Zero)
            THEN obs.exc = "ValueError" /\ ~dreidel[obs.id].live
            ELSE obs.exc = "" /\ dreidel[obs.id].live

\* LFSR32(0) has just failed, after Dreidel construction succeeded
C5_Witness ==
    /\ obs.op = "LFSR32"
    /\ IntEq(obs.a, Zero)
    /\ obs.exc = "ValueError"
    /\ ~lfsr[obs.id].live
    /\ dreidel[1].live

\* C6: from a seed in [1, 2^32 - 1] the state does not come back to the seed
\* before 2^32 - 1 steps have been made.
C6_MaximalPeriod ==
    \A e \in EngineIds :
        (/\ lfsr[e].live
         /\ SeedIn32(eseed[e])
         /\ ecalls[e] >= 1
         /\ IntLt(<<0, ecalls[e]>>, MASK32))
            => ~IntEq(lfsr[e]._state, eseed[e])

\* C7: a spin succeeds, advances the Dreidel's engine by one step, samples
\* the index in 0..3 from the new state and returns the face of that index
\* in the order Nun, Gimel, Hey, Shin.
C7_SpinContract ==
    obs.op = "spin"
        => LET st == dreidel[obs.id]._lfsr._state
           IN  /\ obs.exc = ""
               /\ st = StepMasked(obs.pre)
               /\ obs.ret = <<0, st[2] % 4>>
               /\ obs.face = (CASE obs.ret[2] = 0 -> "Nun"
                                [] obs.ret[2] = 1 -> "Gimel"
                                [] obs.ret[2] = 2 -> "Hey"
                                [] OTHER -> "Shin")
               /\ obs.face \in {"Nun", "Gimel", "Hey", "Shin"}

\* a second spin that landed on Shin
C7_Witness ==
    /\ obs.op = "spin"
    /\ obs.exc = ""
    /\ dspins[obs.id] >= 2
    /\ obs.face = "Shin"

\* C8: a random_int call with min <= max advances the state by one step and
\* returns min + (raw mod (max - min + 1)) for raw the new state; over the
\* default range that is raw itself.
C8_SampleContract ==
    obs.op = "random_int" /\ IntLe(obs.a, obs.b)
        => LET raw == lfsr[obs.id]._state
               size == IntAdd(IntSub(obs.b, obs.a), One)
           IN  /\ obs.exc = ""
               /\ raw = StepMasked(obs.pre)
               /\ obs.ret = IntAdd(obs.a, IntMod(raw, size))
               /\ (IntEq(obs.a, Zero) /\ IntEq(obs.b, MASK32) => obs.ret = raw)

\* a call with min = max that moved the state
C8_Witness ==
    /\ obs.op = "random_int"
    /\ obs.exc = ""
    /\ IntEq(obs.a, obs.b)
    /\ lfsr[obs.id]._state # obs.pre

\* C9: on every state an engine holds, _lfsr32 gives the documented masked
\* step and a 32-bit value without any mask; every successful call leaves
\* that value as the state; the first output of LFSR32(1) is 0x80000000.
C9_StepFunction ==
    /\ \A e \in EngineIds :
          lfsr[e].live
            => /\ Is32(lfsr[e]._state)
               /\ _lfsr32(lfsr[e]._state) = StepMasked(lfsr[e]._state)
               /\ Is32(_lfsr32(lfsr[e]._state))
    /\ obs.op = "random_int" /\ obs.exc = ""
         => lfsr[obs.id]._state = StepMasked(obs.pre)
    /\ (/\ obs.op = "random_int" /\ obs.exc = ""
        /\ IntEq(eseed[obs.id], One) /\ ecalls[obs.id] = 1
        /\ IntEq(obs.a, Zero) /\ IntEq(obs.b, MASK32))
         => obs.ret = <<Half, 0>>

\* the first output of LFSR32(1)
C9_Witness ==
    /\ obs.op = "random_int"
    /\ IntEq(eseed[obs.id], One)
    /\ ecalls[obs.id] = 1
    /\ IntEq(obs.a, Zero) /\ IntEq(obs.b, MASK32)
    /\ obs.ret = <<Half, 0>>

\* C10: _lfsr32 gives zero on zero and on no other state an engine holds;
\* an engine built from a seed in [1, 2^32 - 1] never holds zero and never
\* returns zero over the default range.
C10_NeverZero ==
    /\ \A e \in EngineIds :
          lfsr[e].live
            => (IntEq(_lfsr32(lfsr[e]._state), Zero)
                  <=> IntEq(lfsr[e]._state, Zero))
    /\ \A e \in EngineIds :
          lfsr[e].live /\ SeedIn32(eseed[e]) => ~IntEq(lfsr[e]._state, Zero)
    /\ (/\ obs.op = "random_int" /\ obs.exc = ""
        /\ SeedIn32(eseed[obs.id])
        /\ IntEq(obs.a, Zero) /\ IntEq(obs.b, MASK32))
         => ~IntEq(obs.ret, Zero)

\* the state 1, whose shift alone is zero, has been stepped over the default
\* range
C10_Witness ==
    /\ obs.op = "random_int"
    /\ obs.exc = ""
    /\ SeedIn32(eseed[obs.id])
    /\ IntEq(obs.pre, One)
    /\ IntEq(obs.a, Zero) /\ IntEq(obs.b, MASK32)
    /\ ecalls[obs.id] >= 2

====
